---- MODULE Spec2Model ----
(***************************************************************************)
(* TODOapp backend (src/backend/index.ts): an Express REST API over three  *)
(* MariaDB tables (users, lists, tasks) reached through TypeORM            *)
(* repositories, with class-validator rules on the entity classes.         *)
(*                                                                         *)
(* The state is the three tables with their AUTO_INCREMENT counters.  Each *)
(* route handler is an operator from the tables and the request to its     *)
(* Outcome (the tables afterwards, the response, the repository calls it   *)
(* made), and one action, which handles a request from the current state.  *)
(***************************************************************************)
EXTENDS Integers, Sequences, FiniteSets, TLC

VARIABLES users, lists, tasks, autoInc, boot, put, deleted

\* users, lists, tasks, autoInc: the tables and their AUTO_INCREMENT values.
\* boot: the process from app.listen to the end of main().
\* put:  a PUT between its findOneBy and its save.
\* deleted: the rows whose DELETE was answered 204.
vars == <<users, lists, tasks, autoInc, boot, put, deleted>>

\* Largest primary key the model lets each table hold.
MaxUserId == 2
MaxListId == 2
MaxTaskId == 2

\* Most PUTs followed step by step in one behaviour.
MaxPuts == 2

UserIds == 1..MaxUserId
ListIds == 1..MaxListId
TaskIds == 1..MaxTaskId

-----------------------------------------------------------------------------
(* JSON / JavaScript values.  k is the JavaScript type, n the number (the  *)
(* epoch milliseconds of a Date, 1/0 of a boolean), s the string.          *)

Undef == [k |-> "undef", n |-> 0, s |-> ""]
Str(x) == [k |-> "str", n |-> 0, s |-> x]
Num(i) == [k |-> "num", n |-> i, s |-> ""]
Bool(b) == [k |-> "bool", n |-> IF b THEN 1 ELSE 0, s |-> ""]
DateV(ms) == [k |-> "date", n |-> ms, s |-> ""]
InvalidDate == [k |-> "date", n |-> 0, s |-> "Invalid Date"]

\* The epoch milliseconds the model's timestamps range over.
DateMs == {0, 1, 1000}

\* Date.prototype.toISOString for the timestamps of DateMs.
ISO(ms) ==
    LET frac == ms % 1000
        pad == IF frac < 10 THEN "00" ELSE IF frac < 100 THEN "0" ELSE ""
    IN "1970-01-01T00:00:0" \o ToString(ms \div 1000) \o "."
           \o pad \o ToString(frac) \o "Z"

\* new Date(v): a number is the epoch milliseconds, a string is parsed.
NewDate(v) ==
    IF v.k = "date" THEN v
    ELSE IF v.k = "num" THEN DateV(v.n)
    ELSE IF v.k = "str" /\ \E ms \in DateMs : ISO(ms) = v.s
         THEN DateV(CHOOSE ms \in DateMs : ISO(ms) = v.s)
    ELSE InvalidDate

\* JavaScript truthiness, as `if (req.body.dueDate)` tests it.
Truthy(v) ==
    CASE v.k = "undef" -> FALSE
      [] v.k = "str" -> v.s # ""
      [] v.k = "num" -> v.n # 0
      [] v.k = "bool" -> v.n = 1
      [] OTHER -> TRUE

\* res.json's serialisation of one value: a Date becomes its ISO string.
ToJSON(v) == IF v.k = "date" /\ v.s = "" THEN Str(ISO(v.n)) ELSE v

-----------------------------------------------------------------------------
(* Path parameters are strings, modelled as sequences of characters.       *)

Digits == <<"0", "1", "2", "3", "4", "5", "6", "7", "8", "9">>

IsDigit(c) == \E i \in 1..10 : Digits[i] = c

DigitVal(c) == (CHOOSE i \in 1..10 : Digits[i] = c) - 1

RECURSIVE DigitsVal(_)
DigitsVal(cs) ==
    IF cs = <<>> THEN 0
    ELSE 10 * DigitsVal(SubSeq(cs, 1, Len(cs) - 1)) + DigitVal(cs[Len(cs)])

AllDigits(cs) == Len(cs) > 0 /\ \A i \in 1..Len(cs) : IsDigit(cs[i])

\* Number(string) on signed decimal integers; anything else is NaN.
Number(cs) ==
    IF AllDigits(cs) THEN [nan |-> FALSE, val |-> DigitsVal(cs)]
    ELSE IF Len(cs) > 1 /\ cs[1] = "-" /\ AllDigits(Tail(cs))
         THEN [nan |-> FALSE, val |-> 0 - DigitsVal(Tail(cs))]
    ELSE [nan |-> TRUE, val |-> 0]

\* A faulty gate that lets the id 0 through (id < 0 for id <= 0): C3 fails
\* with it.
validateIdParamZeroPasses(p) ==
    LET id == Number(p) IN ~(id.nan \/ id.val < 0)

\* validateIdParam: next() is called unless the id is NaN or <= 0.
validateIdParam(p) ==
    LET id == Number(p) IN ~(id.nan \/ id.val <= 0)

-----------------------------------------------------------------------------
(* Entities (src/backend/swagger.ts, the database.ts part).  An instance   *)
(* is a record of values, Undef for a property that is not set.            *)

\* new User() / new List(): no property has an initialiser.
NewUser == [id |-> Undef, name |-> Undef]
NewList == [id |-> Undef, userId |-> Undef, name |-> Undef]

\* new Task(): description, dueDate and completed have initialisers.
NewTask == [id |-> Undef, listId |-> Undef, text |-> Undef,
            description |-> Str(""), dueDate |-> DateV(0),
            completed |-> Bool(FALSE)]

\* plainToInstance(cls, plain): a new instance, every key of plain copied.
plainToInstance(fresh, plain) ==
    [c \in DOMAIN fresh |-> IF plain[c].k # "undef" THEN plain[c] ELSE fresh[c]]

\* The class-validator decorators of each class, in declaration order.
UserRules == << [prop |-> "name", type |-> "str", optional |-> FALSE] >>
ListRules == << [prop |-> "userId", type |-> "num", optional |-> FALSE],
                [prop |-> "name", type |-> "str", optional |-> FALSE] >>
TaskRules == << [prop |-> "listId", type |-> "num", optional |-> FALSE],
                [prop |-> "text", type |-> "str", optional |-> FALSE],
                [prop |-> "description", type |-> "str", optional |-> TRUE],
                [prop |-> "dueDate", type |-> "date", optional |-> TRUE],
                [prop |-> "completed", type |-> "bool", optional |-> TRUE] >>

\* IsString, IsInt, IsBoolean, IsDate (a Date whose time is not NaN).
IsType(v, type) == v.k = type /\ (type = "date" => v.s = "")

\* One decorated property fails unless IsOptional skips an undefined value.
RuleFails(e, rule) ==
    /\ ~(rule.optional /\ e[rule.prop].k = "undef")
    /\ ~IsType(e[rule.prop], rule.type)

RECURSIVE FailingProps(_, _)
FailingProps(e, rules) ==
    IF rules = <<>> THEN <<>>
    ELSE (IF RuleFails(e, Head(rules)) THEN <<Head(rules).prop>> ELSE <<>>)
         \o FailingProps(e, Tail(rules))

\* validate(entity): the violated properties, in declaration order.
validate(e, rules) == FailingProps(e, rules)

\* A validateEntity that reports no error, whatever validate found: C9 fails
\* with it.
validateEntityNeverFails(e, rules) == FALSE

\* validateEntity: truthy (the 400 response was sent) iff there are errors.
validateEntity(e, rules) == Len(validate(e, rules)) > 0

-----------------------------------------------------------------------------
(* The tables (setup.sql).  A table is a function from the primary keys    *)
(* present to rows; a row has the entity's properties, every one set.      *)

UserColumns == [id |-> "int", name |-> "varchar"]
ListColumns == [id |-> "int", userId |-> "int", name |-> "varchar"]
TaskColumns == [id |-> "int", listId |-> "int", text |-> "varchar",
                description |-> "text", dueDate |-> "datetime",
                completed |-> "boolean"]

SqlError == [k |-> "error", n |-> 0, s |-> ""]

\* due_date DATETIME: a column without fractional seconds keeps the whole
\* second of the timestamp written to it.
WholeSecond(ms) == (ms \div 1000) * 1000

\* Columns that keep whatever value is written to them, as an untyped store
\* would: C14 fails with it.
ColumnValueUntyped(type, v) == v

\* The value a column of the given SQL type holds after v is written to it.
ColumnValue(type, v) ==
    CASE type = "int" -> IF v.k = "num" THEN v ELSE SqlError
      [] type \in {"varchar", "text"} ->
            IF v.k = "str" THEN v
            ELSE IF v.k = "num" THEN Str(ToString(v.n))
            ELSE SqlError
      [] type = "boolean" ->
            IF v.k = "bool" THEN v
            ELSE IF v.k = "num" /\ v.n \in {0, 1} THEN Bool(v.n = 1)
            ELSE SqlError
      [] type = "datetime" ->
            IF NewDate(v).s = "" THEN DateV(WholeSecond(NewDate(v).n))
            ELSE SqlError

Max(a, b) == IF a > b THEN a ELSE b

Restrict(table, keep) == [i \in (DOMAIN table) \cap keep |-> table[i]]

\* Tables created without their FOREIGN KEY constraints: C2 fails with it.
ForeignKeyUnchecked(row, fk, parentIds) == TRUE

\* FOREIGN KEY (fk) REFERENCES parent: the row's parent must be present.
ForeignKeyOk(row, fk, parentIds) == row[fk].k = "num" /\ row[fk].n \in parentIds

(* repository.save(e).  An entity that carries an id whose row exists is   *)
(* written with UPDATE; otherwise it is INSERTed, under its own id when it *)
(* carries one and under the table's AUTO_INCREMENT value when not.  A     *)
(* column that the entity leaves undefined is not written.  The result is  *)
(* the entity passed in, with its id set.                                  *)
save(table, next, e, columns, fk, parentIds) ==
    LET hasId == e.id.k = "num"
        exists == hasId /\ e.id.n \in DOMAIN table
        id == IF hasId THEN e.id.n ELSE next
        row == [c \in DOMAIN columns |->
                  IF c = "id" THEN Num(id)
                  ELSE IF e[c].k # "undef" THEN ColumnValue(columns[c], e[c])
                  ELSE IF exists THEN table[id][c]
                  ELSE SqlError]
        failed == \/ \E c \in DOMAIN columns : row[c].k = "error"
                  \/ fk # "" /\ ~ForeignKeyOk(row, fk, parentIds)
    IN  IF failed
        THEN [ok |-> FALSE, table |-> table, next |-> next, entity |-> e]
        ELSE [ok |-> TRUE,
              table |-> [i \in (DOMAIN table) \cup {id} |->
                           IF i = id THEN row ELSE table[i]],
              next |-> IF exists THEN next ELSE Max(next, id + 1),
              entity |-> [e EXCEPT !.id = Num(id)]]

\* repository.merge(entity, plain): every defined column of plain overwrites.
merge(e, plain) ==
    [c \in DOMAIN e |-> IF plain[c].k # "undef" THEN plain[c] ELSE e[c]]

\* ON DELETE CASCADE: the child rows whose parent row is still present.
Cascade(children, fk, parentIds) ==
    Restrict(children, {i \in DOMAIN children : children[i][fk].n \in parentIds})

\* A delete that reports one affected row whether or not a row was there:
\* C10 fails with it.
affectedAlwaysOne(table, id) == 1

\* DeleteResult.affected of repository.delete(id).
affected(table, id) == IF id \in DOMAIN table THEN 1 ELSE 0

\* The JSON of one entity or row.
EntityJSON(e) == [c \in DOMAIN e |-> ToJSON(e[c])]

-----------------------------------------------------------------------------
(* Requests and responses.                                                 *)

\* res.status(status).json(body); kind tells what the body is.
Response(status, kind, body) == [status |-> status, kind |-> kind, body |-> body]

InvalidId == Response(400, "message", "Invalid ID parameter")

DB == [users |-> users, lists |-> lists, tasks |-> tasks, autoInc |-> autoInc]

\* What handling a request comes to: the tables afterwards, the response,
\* and the repository calls made.
Outcome(db, response, made) == [db |-> db, resp |-> response, calls |-> made]

\* The model holds primary keys up to the bounds only.
Fits(db) ==
    /\ DOMAIN db.users \subseteq UserIds
    /\ DOMAIN db.lists \subseteq ListIds
    /\ DOMAIN db.tasks \subseteq TaskIds

\* The tables become those of db.
Tables(db) ==
    /\ users' = db.users
    /\ lists' = db.lists
    /\ tasks' = db.tasks
    /\ autoInc' = db.autoInc

\* A handler that runs from its first store call to its response with no
\* other request in between: the tables become those of db.
Becomes(db) == Tables(db) /\ UNCHANGED <<boot, put, deleted>>

-----------------------------------------------------------------------------
(* User routes.                                                            *)

\* app.get("/api/users")
GetUsersOutcome(db) ==
    Outcome(db, Response(200, "array",
                         {EntityJSON(db.users[i]) : i \in DOMAIN db.users}),
            <<"find">>)

\* app.get("/api/users/:id")
GetUserOutcome(db, p) ==
    LET id == Number(p).val IN
    IF ~validateIdParam(p) THEN Outcome(db, InvalidId, <<>>)
    ELSE IF id \notin DOMAIN db.users
    THEN Outcome(db, Response(404, "message", "User not found"), <<"findOneBy">>)
    ELSE Outcome(db, Response(200, "entity", EntityJSON(db.users[id])),
                 <<"findOneBy">>)

\* app.post("/api/users")
PostUserOutcome(db, body) ==
    LET newUser == plainToInstance(NewUser, body)
        saved == save(db.users, db.autoInc.users, newUser, UserColumns, "", {})
    IN
    IF validateEntity(newUser, UserRules)
    THEN Outcome(db, Response(400, "errors", validate(newUser, UserRules)), <<>>)
    ELSE IF ~saved.ok
    THEN Outcome(db, Response(500, "message", "Error creating user"), <<"save">>)
    ELSE Outcome([db EXCEPT !.users = saved.table, !.autoInc.users = saved.next],
                 Response(201, "entity", EntityJSON(saved.entity)), <<"save">>)

\* app.put("/api/users/:id")
PutUserOutcome(db, p, body) ==
    LET id == Number(p).val
        updatedUser == merge(db.users[id], body)
        saved == save(db.users, db.autoInc.users, updatedUser, UserColumns, "", {})
    IN
    IF ~validateIdParam(p) THEN Outcome(db, InvalidId, <<>>)
    ELSE IF id \notin DOMAIN db.users
    THEN Outcome(db, Response(404, "message", "User not found"), <<"findOneBy">>)
    ELSE IF validateEntity(plainToInstance(NewUser, updatedUser), UserRules)
    THEN Outcome(db, Response(400, "errors",
                              validate(plainToInstance(NewUser, updatedUser),
                                       UserRules)),
                 <<"findOneBy">>)
    ELSE IF ~saved.ok
    THEN Outcome(db, Response(500, "message", "Error updating user"),
                 <<"findOneBy", "save">>)
    ELSE Outcome([db EXCEPT !.users = saved.table, !.autoInc.users = saved.next],
                 Response(200, "entity", EntityJSON(saved.entity)),
                 <<"findOneBy", "save">>)

\* A cascade that stops at the lists (tasks.list_id without ON DELETE
\* CASCADE and unchecked): C1 fails with it.
DeleteUserRowsListsOnly(db, id) ==
    LET us == Restrict(db.users, (DOMAIN db.users) \ {id})
    IN [db EXCEPT !.users = us, !.lists = Cascade(db.lists, "userId", DOMAIN us)]

\* DELETE FROM users WHERE user_id = id, with the cascades of setup.sql.
DeleteUserRows(db, id) ==
    LET us == Restrict(db.users, (DOMAIN db.users) \ {id})
        ls == Cascade(db.lists, "userId", DOMAIN us)
        ts == Cascade(db.tasks, "listId", DOMAIN ls)
    IN [db EXCEPT !.users = us, !.lists = ls, !.tasks = ts]

\* app.delete("/api/users/:id")
DeleteUserOutcome(db, p) ==
    LET id == Number(p).val IN
    IF ~validateIdParam(p) THEN Outcome(db, InvalidId, <<>>)
    ELSE IF affected(db.users, id) = 0
    THEN Outcome(db, Response(404, "message", "User not found"), <<"delete">>)
    ELSE Outcome(DeleteUserRows(db, id), Response(204, "empty", ""), <<"delete">>)
-----------------------------------------------------------------------------
(* List routes.                                                            *)

\* A GET /api/lists/user/:id without the lists.length === 0 branch: it answers
\* 200 with whatever find returned, the empty array included.  C11 fails
\* with it.
GetListsByUserEmpty200(db, p) ==
    LET userId == Number(p).val
        found == {i \in DOMAIN db.lists : db.lists[i].userId.n = userId}
    IN
    IF ~validateIdParam(p) THEN Outcome(db, InvalidId, <<>>)
    ELSE Outcome(db, Response(200, "array", {EntityJSON(db.lists[i]) : i \in found}),
                 <<"find">>)

\* app.get("/api/lists/user/:id")
GetListsByUserOutcome(db, p) ==
    LET userId == Number(p).val
        found == {i \in DOMAIN db.lists : db.lists[i].userId.n = userId}
    IN
    IF ~validateIdParam(p) THEN Outcome(db, InvalidId, <<>>)
    ELSE IF Cardinality(found) = 0
    THEN Outcome(db, Response(404, "message", "No lists found for this user"),
                 <<"find">>)
    ELSE Outcome(db, Response(200, "array", {EntityJSON(db.lists[i]) : i \in found}),
                 <<"find">>)

\* app.get("/api/lists/:id")
GetListOutcome(db, p) ==
    LET id == Number(p).val IN
    IF ~validateIdParam(p) THEN Outcome(db, InvalidId, <<>>)
    ELSE IF id \notin DOMAIN db.lists
    THEN Outcome(db, Response(404, "message", "List not found"), <<"findOneBy">>)
    ELSE Outcome(db, Response(200, "entity", EntityJSON(db.lists[id])),
                 <<"findOneBy">>)

\* app.post("/api/lists")
PostListOutcome(db, body) ==
    LET newList == plainToInstance(NewList, body)
        saved == save(db.lists, db.autoInc.lists, newList, ListColumns, "userId",
                      DOMAIN db.users)
    IN
    IF validateEntity(newList, ListRules)
    THEN Outcome(db, Response(400, "errors", validate(newList, ListRules)), <<>>)
    ELSE IF ~saved.ok
    THEN Outcome(db, Response(500, "message", "Error creating list"), <<"save">>)
    ELSE Outcome([db EXCEPT !.lists = saved.table, !.autoInc.lists = saved.next],
                 Response(201, "entity", EntityJSON(saved.entity)), <<"save">>)

\* app.put("/api/lists/:id")
PutListOutcome(db, p, body) ==
    LET id == Number(p).val
        updatedList == merge(db.lists[id], body)
        saved == save(db.lists, db.autoInc.lists, updatedList, ListColumns, "userId",
                      DOMAIN db.users)
    IN
    IF ~validateIdParam(p) THEN Outcome(db, InvalidId, <<>>)
    ELSE IF id \notin DOMAIN db.lists
    THEN Outcome(db, Response(404, "message", "List not found"), <<"findOneBy">>)
    ELSE IF validateEntity(plainToInstance(NewList, updatedList), ListRules)
    THEN Outcome(db, Response(400, "errors",
                              validate(plainToInstance(NewList, updatedList),
                                       ListRules)),
                 <<"findOneBy">>)
    ELSE IF ~saved.ok
    THEN Outcome(db, Response(500, "message", "Error updating list"),
                 <<"findOneBy", "save">>)
    ELSE Outcome([db EXCEPT !.lists = saved.table, !.autoInc.lists = saved.next],
                 Response(200, "entity", EntityJSON(saved.entity)),
                 <<"findOneBy", "save">>)

\* DELETE FROM lists WHERE list_id = id, with the cascade of setup.sql.
DeleteListRows(db, id) ==
    LET ls == Restrict(db.lists, (DOMAIN db.lists) \ {id})
        ts == Cascade(db.tasks, "listId", DOMAIN ls)
    IN [db EXCEPT !.lists = ls, !.tasks = ts]

\* app.delete("/api/lists/:id")
DeleteListOutcome(db, p) ==
    LET id == Number(p).val IN
    IF ~validateIdParam(p) THEN Outcome(db, InvalidId, <<>>)
    ELSE IF affected(db.lists, id) = 0
    THEN Outcome(db, Response(404, "message", "List not found"), <<"delete">>)
    ELSE Outcome(DeleteListRows(db, id), Response(204, "empty", ""), <<"delete">>)

-----------------------------------------------------------------------------
(* Task routes.                                                            *)

\* app.get("/api/tasks/list/:id")
GetTasksByListOutcome(db, p) ==
    LET listId == Number(p).val
        found == {i \in DOMAIN db.tasks : db.tasks[i].listId.n = listId}
    IN
    IF ~validateIdParam(p) THEN Outcome(db, InvalidId, <<>>)
    ELSE IF Cardinality(found) = 0
    THEN Outcome(db, Response(404, "message", "No lists found for this user"),
                 <<"find">>)
    ELSE Outcome(db, Response(200, "array", {EntityJSON(db.tasks[i]) : i \in found}),
                 <<"find">>)

\* app.get("/api/tasks/:id")
GetTaskOutcome(db, p) ==
    LET id == Number(p).val IN
    IF ~validateIdParam(p) THEN Outcome(db, InvalidId, <<>>)
    ELSE IF id \notin DOMAIN db.tasks
    THEN Outcome(db, Response(404, "message", "Task not found"), <<"findOneBy">>)
    ELSE Outcome(db, Response(200, "entity", EntityJSON(db.tasks[id])),
                 <<"findOneBy">>)

\* A POST /api/tasks that forgets to parse: the dueDate string reaches the
\* validation as received.  C12 fails with it.
ParseDueDateSkipped(body) == body

\* if (req.body.dueDate) req.body.dueDate = new Date(req.body.dueDate)
ParseDueDate(body) ==
    IF Truthy(body.dueDate)
    THEN [body EXCEPT !.dueDate = NewDate(body.dueDate)]
    ELSE body

\* app.post("/api/tasks")
PostTaskOutcome(db, body) ==
    LET newTask == plainToInstance(NewTask, ParseDueDate(body))
        saved == save(db.tasks, db.autoInc.tasks, newTask, TaskColumns, "listId",
                      DOMAIN db.lists)
    IN
    IF validateEntity(newTask, TaskRules)
    THEN Outcome(db, Response(400, "errors", validate(newTask, TaskRules)), <<>>)
    ELSE IF ~saved.ok
    THEN Outcome(db, Response(500, "message", "Error creating task"), <<"save">>)
    ELSE Outcome([db EXCEPT !.tasks = saved.table, !.autoInc.tasks = saved.next],
                 Response(201, "entity", EntityJSON(saved.entity)), <<"save">>)

\* app.put("/api/tasks/:id"): the merged task is saved without validation.
PutTaskOutcome(db, p, body) ==
    LET id == Number(p).val
        updatedTask == merge(db.tasks[id], body)
        saved == save(db.tasks, db.autoInc.tasks, updatedTask, TaskColumns, "listId",
                      DOMAIN db.lists)
    IN
    IF ~validateIdParam(p) THEN Outcome(db, InvalidId, <<>>)
    ELSE IF id \notin DOMAIN db.tasks
    THEN Outcome(db, Response(404, "message", "Task not found"), <<"findOneBy">>)
    ELSE IF ~saved.ok
    THEN Outcome(db, Response(500, "message", "Error updating task"),
                 <<"findOneBy", "save">>)
    ELSE Outcome([db EXCEPT !.tasks = saved.table, !.autoInc.tasks = saved.next],
                 Response(200, "entity", EntityJSON(saved.entity)),
                 <<"findOneBy", "save">>)

\* app.delete("/api/tasks/:id")
DeleteTaskOutcome(db, p) ==
    LET id == Number(p).val IN
    IF ~validateIdParam(p) THEN Outcome(db, InvalidId, <<>>)
    ELSE IF affected(db.tasks, id) = 0
    THEN Outcome(db, Response(404, "message", "Task not found"), <<"delete">>)
    ELSE Outcome([db EXCEPT !.tasks = Restrict(db.tasks, (DOMAIN db.tasks) \ {id})],
                 Response(204, "empty", ""), <<"delete">>)
-----------------------------------------------------------------------------
(* The requests clients send.                                              *)

\* Path ids: not a number, zero, negative, and the keys up to one past max.
Params(max) ==
    {<<"a", "b", "c">>, <<"0">>, <<"-", "1">>}
        \cup {<<Digits[i + 1]>> : i \in 1..(max + 1)}

UserBody(id, name) == [id |-> id, name |-> name]
ListBody(id, userId, name) == [id |-> id, userId |-> userId, name |-> name]
TaskBody(id, listId, text, description, dueDate, completed) ==
    [id |-> id, listId |-> listId, text |-> text, description |-> description,
     dueDate |-> dueDate, completed |-> completed]

\* The bodies the claims range over: with and without a client-chosen id,
\* with every property absent, well typed or ill typed.
BodyIds(ids) == {Undef} \cup {Num(j) : j \in ids}

UserBodies ==
    {UserBody(i, n) :
        i \in BodyIds(UserIds), n \in {Undef, Str("a"), Str("b"), Num(5)}}

ListBodies ==
    {ListBody(i, u, n) :
        i \in BodyIds(ListIds),
        u \in {Undef, Str("x")} \cup {Num(j) : j \in 1..(MaxUserId + 1)},
        n \in {Undef, Str("a"), Num(5)}}

TaskBodies ==
    {TaskBody(i, l, t, Undef, Undef, Undef) :
        i \in BodyIds(TaskIds),
        l \in {Undef} \cup {Num(j) : j \in 1..(MaxListId + 1)},
        t \in {Undef, Str("a"), Num(5)}}
        \cup {TaskBody(Undef, Num(1), Str("b"), d, due, c) :
                d \in {Undef, Str("d"), Num(5)},
                due \in {Undef, Str(ISO(1)), Str("soon"), Num(0)},
                c \in {Undef, Bool(TRUE), Num(1), Str("yes")}}

\* The requests that the actions send: the ones that decide which rows
\* exist and which parent each row has.
StepParams(max) == {p \in Params(max) : Number(p).val >= 0 /\ ~Number(p).nan}

UserSteps == {b \in UserBodies : b.name = Str("a")}

ListSteps ==
    {b \in ListBodies :
        /\ b.name = Str("a")
        /\ b.userId = Undef \/ (b.userId.k = "num" /\ b.userId.n \in UserIds)
        /\ b.id = Undef \/ b.userId = Num(1)}

\* A PUT's body with a client-chosen id reaches no table that a POST with
\* the same body does not reach.
WithoutId(bodies) == {b \in bodies : b.id = Undef}

TaskSteps ==
    {b \in TaskBodies :
        /\ b.text = Str("a")
        /\ b.listId = Undef \/ b.listId.n \in ListIds
        /\ b.id = Undef \/ b.listId = Num(1)}

-----------------------------------------------------------------------------
(* The specification: each step is one request handled to its response.    *)

\* The process: phase "starting" before app.listen's callback ran,
\* "listening" while AppDataSource.initialize() is pending, "ready" once it
\* resolved, "exited" after process.exit(1); inits counts the calls of
\* initialize; early tells that a handler called the repository while the
\* phase was "listening".
Boot(phase, inits, early) == [phase |-> phase, inits |-> inits, early |-> early]

\* No PUT is between its findOneBy and its save, and none was started.
Idle == [pc |-> "idle", route |-> "", id |-> 0, entity |-> <<>>,
         status |-> 0, late |-> FALSE, started |-> 0]

\* The tables are empty.
EmptyTables ==
    /\ users = <<>>
    /\ lists = <<>>
    /\ tasks = <<>>
    /\ autoInc = [users |-> 1, lists |-> 1, tasks |-> 1]

\* The server after its start: the connection is initialised, the tables
\* are empty.
Init ==
    /\ EmptyTables
    /\ boot = Boot("ready", 1, FALSE)
    /\ put = Idle
    /\ deleted = {}

GetUsers ==
    /\ Fits(GetUsersOutcome(DB).db)
    /\ Becomes(GetUsersOutcome(DB).db)

GetUser ==
    \E p \in StepParams(MaxUserId) :
        /\ Fits(GetUserOutcome(DB, p).db)
        /\ Becomes(GetUserOutcome(DB, p).db)

PostUser ==
    \E b \in UserSteps :
        /\ Fits(PostUserOutcome(DB, b).db)
        /\ Becomes(PostUserOutcome(DB, b).db)

PutUser ==
    \E p \in StepParams(MaxUserId), b \in WithoutId(UserSteps) :
        /\ Fits(PutUserOutcome(DB, p, b).db)
        /\ Becomes(PutUserOutcome(DB, p, b).db)

DeleteUser ==
    \E p \in StepParams(MaxUserId) :
        /\ Fits(DeleteUserOutcome(DB, p).db)
        /\ Becomes(DeleteUserOutcome(DB, p).db)

GetListsByUser ==
    \E p \in StepParams(MaxUserId) :
        /\ Fits(GetListsByUserOutcome(DB, p).db)
        /\ Becomes(GetListsByUserOutcome(DB, p).db)

GetList ==
    \E p \in StepParams(MaxListId) :
        /\ Fits(GetListOutcome(DB, p).db)
        /\ Becomes(GetListOutcome(DB, p).db)

PostList ==
    \E b \in ListSteps :
        /\ Fits(PostListOutcome(DB, b).db)
        /\ Becomes(PostListOutcome(DB, b).db)

PutList ==
    \E p \in StepParams(MaxListId), b \in WithoutId(ListSteps) :
        /\ Fits(PutListOutcome(DB, p, b).db)
        /\ Becomes(PutListOutcome(DB, p, b).db)

DeleteList ==
    \E p \in StepParams(MaxListId) :
        /\ Fits(DeleteListOutcome(DB, p).db)
        /\ Becomes(DeleteListOutcome(DB, p).db)

GetTasksByList ==
    \E p \in StepParams(MaxListId) :
        /\ Fits(GetTasksByListOutcome(DB, p).db)
        /\ Becomes(GetTasksByListOutcome(DB, p).db)

GetTask ==
    \E p \in StepParams(MaxTaskId) :
        /\ Fits(GetTaskOutcome(DB, p).db)
        /\ Becomes(GetTaskOutcome(DB, p).db)

PostTask ==
    \E b \in TaskSteps :
        /\ Fits(PostTaskOutcome(DB, b).db)
        /\ Becomes(PostTaskOutcome(DB, b).db)

PutTask ==
    \E p \in StepParams(MaxTaskId), b \in WithoutId(TaskSteps) :
        /\ Fits(PutTaskOutcome(DB, p, b).db)
        /\ Becomes(PutTaskOutcome(DB, p, b).db)

DeleteTask ==
    \E p \in StepParams(MaxTaskId) :
        /\ Fits(DeleteTaskOutcome(DB, p).db)
        /\ Becomes(DeleteTaskOutcome(DB, p).db)

Next ==
    \/ GetUsers \/ GetUser \/ PostUser \/ PutUser \/ DeleteUser
    \/ GetListsByUser \/ GetList \/ PostList \/ PutList \/ DeleteList
    \/ GetTasksByList \/ GetTask \/ PostTask \/ PutTask \/ DeleteTask

Spec == Init /\ [][Next]_vars
-----------------------------------------------------------------------------
(* The claims.  Each is stated for every reachable state of the tables and *)
(* every request of the sets above: out is what handling the request in    *)
(* that state comes to.                                                    *)

ListsOf(db, U) == {l \in DOMAIN db.lists : db.lists[l].userId.n = U}
TasksOf(db, ls) == {t \in DOMAIN db.tasks : db.tasks[t].listId.n \in ls}

\* C1: when DELETE /users/U answers 204, the tables afterwards hold no list
\* with userId U and no task of a list that belonged to U, and every user,
\* list and task of the other users is still there, unchanged.
C1_CascadeTransitivity ==
    \A p \in Params(MaxUserId) :
        LET out == DeleteUserOutcome(DB, p)
            U == Number(p).val
            gone == ListsOf(DB, U)
        IN  out.resp.status = 204 =>
              /\ U \notin DOMAIN out.db.users
              /\ ListsOf(out.db, U) = {}
              /\ TasksOf(out.db, gone) = {}
              /\ out.db.users = Restrict(users, (DOMAIN users) \ {U})
              /\ out.db.lists = Restrict(lists, (DOMAIN lists) \ gone)
              /\ out.db.tasks =
                    Restrict(tasks, (DOMAIN tasks) \ TasksOf(DB, gone))
              /\ out.db.autoInc = autoInc

\* C1's case: a user who owns a list with a task is deleted with 204 while
\* another user owns a list with a task.
C1_Witness ==
    \E p \in Params(MaxUserId), V \in DOMAIN users :
        LET U == Number(p).val IN
        /\ DeleteUserOutcome(DB, p).resp.status = 204
        /\ V # U
        /\ TasksOf(DB, ListsOf(DB, U)) # {}
        /\ TasksOf(DB, ListsOf(DB, V)) # {}

\* C2: in every reachable state every list's userId is the id of a stored
\* user and every task's listId is the id of a stored list.
C2_ReferentialIntegrity ==
    /\ \A l \in DOMAIN lists :
          lists[l].userId.k = "num" /\ lists[l].userId.n \in DOMAIN users
    /\ \A t \in DOMAIN tasks :
          tasks[t].listId.k = "num" /\ tasks[t].listId.n \in DOMAIN lists

\* C2's case: a list is stored whose owner a PUT can change (200), while a
\* PUT that names a user who is not stored is refused, and a stored task
\* can be moved to another list.
C2_Witness ==
    /\ \E p \in Params(MaxListId), b \in ListBodies :
          LET out == PutListOutcome(DB, p, b) IN
          /\ out.resp.status = 200
          /\ out.db.lists[Number(p).val].userId # lists[Number(p).val].userId
    /\ \E p \in Params(MaxListId), b \in ListBodies :
          /\ Number(p).val \in DOMAIN lists
          /\ b.userId.k = "num" /\ b.userId.n \notin DOMAIN users
          /\ PutListOutcome(DB, p, b).db = DB
    /\ \E p \in Params(MaxTaskId), b \in TaskBodies :
          LET out == PutTaskOutcome(DB, p, b) IN
          /\ out.resp.status = 200
          /\ out.db.tasks[Number(p).val].listId # tasks[Number(p).val].listId

\* The gate on one request: out is what the route came to for path id p.
Gated(p, out) ==
    IF Number(p).nan \/ ~(Number(p).val > 0)
    THEN out.resp.status = 400 /\ out.calls = <<>> /\ out.db = DB
    ELSE out.calls # <<>> /\ out.resp # InvalidId

\* C3: on every route with a path id, an id that is not a number or is not
\* greater than zero is answered 400 with no repository call and the tables
\* untouched; any other id reaches the handler, which calls the repository.
C3_IdValidationGate ==
    /\ \A p \in Params(MaxUserId) :
          /\ Gated(p, GetUserOutcome(DB, p))
          /\ Gated(p, DeleteUserOutcome(DB, p))
          /\ Gated(p, GetListsByUserOutcome(DB, p))
          /\ \A b \in UserSteps : Gated(p, PutUserOutcome(DB, p, b))
    /\ \A p \in Params(MaxListId) :
          /\ Gated(p, GetListOutcome(DB, p))
          /\ Gated(p, DeleteListOutcome(DB, p))
          /\ Gated(p, GetTasksByListOutcome(DB, p))
          /\ \A b \in WithoutId(ListSteps) : Gated(p, PutListOutcome(DB, p, b))
    /\ \A p \in Params(MaxTaskId) :
          /\ Gated(p, GetTaskOutcome(DB, p))
          /\ Gated(p, DeleteTaskOutcome(DB, p))
          /\ \A b \in WithoutId(TaskSteps) : Gated(p, PutTaskOutcome(DB, p, b))

\* C3's case: with a user stored under id 1, GET /users/1 is served while
\* GET /users/abc, /users/0 and /users/-1 are answered 400.
C3_Witness ==
    /\ GetUserOutcome(DB, <<"1">>).resp.status = 200
    /\ \A p \in {<<"a", "b", "c">>, <<"0">>, <<"-", "1">>} :
          GetUserOutcome(DB, p).resp.status = 400
\* The path id of the row stored under key i.
IdParam(i) == <<Digits[i + 1]>>

\* A create answered 201 returned a positive id that no row had before,
\* added exactly that row and changed no other.
FreshId(table, after, out) ==
    out.resp.status = 201 =>
        LET id == out.resp.body.id IN
        /\ id.k = "num" /\ id.n > 0
        /\ id.n \notin DOMAIN table
        /\ DOMAIN after = (DOMAIN table) \cup {id.n}
        /\ \A i \in DOMAIN table : after[i] = table[i]

\* C4 (as claimed): every POST answered 201, whatever the body, an id
\* property included, returns a fresh positive id, adds exactly one row and
\* modifies no existing row.
C4_FreshIdOnCreate ==
    /\ \A b \in UserBodies :
          LET out == PostUserOutcome(DB, b) IN FreshId(users, out.db.users, out)
    /\ \A b \in ListBodies :
          LET out == PostListOutcome(DB, b) IN FreshId(lists, out.db.lists, out)
    /\ \A b \in TaskBodies :
          LET out == PostTaskOutcome(DB, b) IN FreshId(tasks, out.db.tasks, out)

\* An update answered 200 returned the path id, wrote no row but the one
\* under the path id and created none.
SameId(id, table, after, out) ==
    out.resp.status = 200 =>
        /\ out.resp.body.id = Num(id)
        /\ DOMAIN after = DOMAIN table
        /\ \A i \in (DOMAIN table) \ {id} : after[i] = table[i]

\* C5 (as claimed): every PUT answered 200, whatever the body, an id
\* property included, leaves the record under the path id with that id,
\* modifies no other record and creates none.
C5_IdImmutableUnderUpdate ==
    /\ \A i \in DOMAIN users, b \in UserBodies :
          LET out == PutUserOutcome(DB, IdParam(i), b)
          IN SameId(i, users, out.db.users, out)
    /\ \A i \in DOMAIN lists, b \in ListBodies :
          LET out == PutListOutcome(DB, IdParam(i), b)
          IN SameId(i, lists, out.db.lists, out)
    /\ \A i \in DOMAIN tasks, b \in TaskBodies :
          LET out == PutTaskOutcome(DB, IdParam(i), b)
          IN SameId(i, tasks, out.db.tasks, out)

\* An update answered 200 returned, property by property, the body's value
\* where the body has one and the stored value where it has none, and the
\* row now stored under the returned id is the record returned.
MergedAndStored(old, b, after, out) ==
    out.resp.status = 200 =>
        LET R == out.resp.body IN
        /\ \A c \in DOMAIN old :
              R[c] = ToJSON(IF b[c].k # "undef" THEN b[c] ELSE old[c])
        /\ R.id.k = "num" /\ R.id.n \in DOMAIN after
        /\ EntityJSON(after[R.id.n]) = R

\* C6 (as claimed): every PUT answered 200 sets each property present in
\* the body to the body's value, keeps every absent property as stored
\* before, and returns the record as it is stored afterwards.
C6_MergeUpdate ==
    /\ \A i \in DOMAIN users, b \in UserBodies :
          LET out == PutUserOutcome(DB, IdParam(i), b)
          IN MergedAndStored(users[i], b, out.db.users, out)
    /\ \A i \in DOMAIN lists, b \in ListBodies :
          LET out == PutListOutcome(DB, IdParam(i), b)
          IN MergedAndStored(lists[i], b, out.db.lists, out)
    /\ \A i \in DOMAIN tasks, b \in TaskBodies :
          LET out == PutTaskOutcome(DB, IdParam(i), b)
          IN MergedAndStored(tasks[i], b, out.db.tasks, out)

\* C7 (as claimed): POST /tasks with the body {text: "Buy milk"} answers 201
\* and stores a task with description "", completed false and dueDate
\* epoch zero.
C7_TaskDefaultsOnCreate ==
    LET out == PostTaskOutcome(DB, TaskBody(Undef, Undef, Str("Buy milk"),
                                            Undef, Undef, Undef))
        id == out.resp.body.id.n
    IN  /\ out.resp.status = 201
        /\ id \in DOMAIN out.db.tasks
        /\ out.db.tasks[id].description = Str("")
        /\ out.db.tasks[id].completed = Bool(FALSE)
        /\ out.db.tasks[id].dueDate = DateV(0)

\* The body names, as a number, a parent row that is not stored.
MissingParent(b, fk, parents) == b[fk].k = "num" /\ b[fk].n \notin DOMAIN parents

\* A request refused as the client's error: a 4xx answer, nothing written.
ClientError(out) ==
    out.resp.status >= 400 /\ out.resp.status < 500 /\ out.db = DB

\* C8 (as claimed): a POST or PUT whose userId names no stored user, or
\* whose listId names no stored list, is answered 4xx, not the generic 500,
\* and writes nothing.
C8_ForeignKeyFailureIsClientError ==
    /\ \A b \in ListBodies :
          MissingParent(b, "userId", users) =>
              /\ ClientError(PostListOutcome(DB, b))
              /\ \A i \in DOMAIN lists :
                    ClientError(PutListOutcome(DB, IdParam(i), b))
    /\ \A b \in TaskBodies :
          MissingParent(b, "listId", lists) =>
              /\ ClientError(PostTaskOutcome(DB, b))
              /\ \A i \in DOMAIN tasks :
                    ClientError(PutTaskOutcome(DB, IdParam(i), b))

\* A request refused by validation: 400, nothing written.
Rejected(out) == out.resp.status = 400 /\ out.db = DB

\* C9: a create whose candidate entity fails validation (User, List, Task)
\* and an update whose merged entity fails it (User, List) are answered 400
\* and leave every table exactly as it was.  The bodies carry no id: no
\* rule reads it.
C9_ValidationPrecedesWrite ==
    /\ \A b \in WithoutId(UserBodies) :
          validate(plainToInstance(NewUser, b), UserRules) # <<>>
              => Rejected(PostUserOutcome(DB, b))
    /\ \A b \in WithoutId(ListBodies) :
          validate(plainToInstance(NewList, b), ListRules) # <<>>
              => Rejected(PostListOutcome(DB, b))
    /\ \A b \in WithoutId(TaskBodies) :
          validate(plainToInstance(NewTask, ParseDueDate(b)), TaskRules) # <<>>
              => Rejected(PostTaskOutcome(DB, b))
    /\ \A i \in DOMAIN users, b \in WithoutId(UserBodies) :
          validate(merge(users[i], b), UserRules) # <<>>
              => Rejected(PutUserOutcome(DB, IdParam(i), b))
    /\ \A i \in DOMAIN lists, b \in WithoutId(ListBodies) :
          validate(merge(lists[i], b), ListRules) # <<>>
              => Rejected(PutListOutcome(DB, IdParam(i), b))

\* C9's case: with a user and a list stored, a POST and a PUT of each kind
\* carry an ill-typed property and are refused.
C9_Witness ==
    /\ \E i \in DOMAIN users :
          PutUserOutcome(DB, IdParam(i), UserBody(Undef, Num(5))).resp.status = 400
    /\ \E i \in DOMAIN lists :
          PutListOutcome(DB, IdParam(i),
                         ListBody(Undef, Str("x"), Undef)).resp.status = 400
    /\ PostUserOutcome(DB, UserBody(Undef, Num(5))).resp.status = 400
    /\ PostListOutcome(DB, ListBody(Undef, Num(1), Num(5))).resp.status = 400
    /\ PostTaskOutcome(DB, TaskBody(Undef, Num(1), Num(5),
                                    Undef, Undef, Undef)).resp.status = 400

\* The DELETE of the row under key i, present or not, and what follows it.
DeleteThenAbsent(i, table, out, again, get) ==
    IF i \in DOMAIN table
    THEN /\ out.resp.status = 204
         /\ again.resp.status = 404 /\ again.db = out.db
         /\ get.resp.status = 404
    ELSE out.resp.status = 404 /\ out.db = DB

\* C10: DELETE answers 204 when a record with the id was stored, and then
\* the record is gone, a second DELETE of the id answers 404 and changes
\* nothing, and a GET of the id answers 404; it answers 404 and changes
\* nothing when no record with the id was stored.
C10_DeleteOutcome ==
    /\ \A i \in 1..(MaxUserId + 1) :
          LET out == DeleteUserOutcome(DB, IdParam(i)) IN
          /\ i \notin DOMAIN out.db.users
          /\ DeleteThenAbsent(i, users, out,
                              DeleteUserOutcome(out.db, IdParam(i)),
                              GetUserOutcome(out.db, IdParam(i)))
    /\ \A i \in 1..(MaxListId + 1) :
          LET out == DeleteListOutcome(DB, IdParam(i)) IN
          /\ i \notin DOMAIN out.db.lists
          /\ DeleteThenAbsent(i, lists, out,
                              DeleteListOutcome(out.db, IdParam(i)),
                              GetListOutcome(out.db, IdParam(i)))
    /\ \A i \in 1..(MaxTaskId + 1) :
          LET out == DeleteTaskOutcome(DB, IdParam(i)) IN
          /\ i \notin DOMAIN out.db.tasks
          /\ DeleteThenAbsent(i, tasks, out,
                              DeleteTaskOutcome(out.db, IdParam(i)),
                              GetTaskOutcome(out.db, IdParam(i)))

\* C10's case: a user, a list and a task are stored and the DELETE of each
\* answers 204, while the DELETE of an id that is not stored answers 404.
C10_Witness ==
    /\ \E i \in DOMAIN users : DeleteUserOutcome(DB, IdParam(i)).resp.status = 204
    /\ \E i \in DOMAIN lists : DeleteListOutcome(DB, IdParam(i)).resp.status = 204
    /\ \E i \in DOMAIN tasks : DeleteTaskOutcome(DB, IdParam(i)).resp.status = 204
    /\ \E i \in TaskIds : DeleteTaskOutcome(DB, IdParam(i)).resp.status = 404
\* The answer to a parent-filtered GET: 200 with exactly the rows, when
\* there is one at least, and 404 when there is none.
RowsOr404(rows, out) ==
    /\ out.db = DB
    /\ IF rows = {} THEN out.resp.status = 404
       ELSE /\ out.resp.status = 200
            /\ out.resp.body = rows
    /\ ~(out.resp.status = 200 /\ out.resp.body = {})

\* C11: GET /lists/user/{id} answers 200 with exactly the stored lists whose
\* userId is id when there is one at least and 404 when there is none,
\* whether or not the user is stored; GET /tasks/list/{id} does the same for
\* the tasks whose listId is id; neither answers 200 with an empty array.
C11_EmptyFilteredCollectionIs404 ==
    /\ \A u \in 1..(MaxUserId + 1) :
          RowsOr404({EntityJSON(lists[i]) : i \in ListsOf(DB, u)},
                    GetListsByUserOutcome(DB, IdParam(u)))
    /\ \A l \in 1..(MaxListId + 1) :
          RowsOr404({EntityJSON(tasks[i]) : i \in TasksOf(DB, {l})},
                    GetTasksByListOutcome(DB, IdParam(l)))

\* C11's case: a stored user with lists and a stored user with none, a
\* stored list with tasks and a stored list with none, each asked for.
C11_Witness ==
    /\ \E u \in DOMAIN users :
          GetListsByUserOutcome(DB, IdParam(u)).resp.status = 200
    /\ \E u \in DOMAIN users :
          GetListsByUserOutcome(DB, IdParam(u)).resp.status = 404
    /\ \E l \in DOMAIN lists :
          GetTasksByListOutcome(DB, IdParam(l)).resp.status = 200
    /\ \E l \in DOMAIN lists :
          GetTasksByListOutcome(DB, IdParam(l)).resp.status = 404
\* POST /tasks bodies, valid but for their dueDate, for a stored list l.
DueBody(l, due) == TaskBody(Undef, Num(l), Str("a"), Undef, due, Undef)

\* dueDate strings that no timestamp parser accepts.
Unparseable == {Str("soon"), Str("")}

\* The POST was answered 201 and the task it stored has dueDate d.
CreatedDue(out, d) ==
    /\ out.resp.status = 201
    /\ out.resp.body.id.n \in DOMAIN out.db.tasks
    /\ out.db.tasks[out.resp.body.id.n].dueDate = d

\* C12 (as claimed): POST /tasks with an otherwise valid body answers 201
\* and stores dueDate epoch zero when dueDate is absent or unparseable, and
\* stores the parsed timestamp when it is parseable.
C12_DueDateFallback ==
    \A l \in DOMAIN lists :
        /\ CreatedDue(PostTaskOutcome(DB, DueBody(l, Undef)), DateV(0))
        /\ \A due \in Unparseable :
              CreatedDue(PostTaskOutcome(DB, DueBody(l, due)), DateV(0))
        /\ \A ms \in DateMs :
              CreatedDue(PostTaskOutcome(DB, DueBody(l, Str(ISO(ms)))), DateV(ms))

\* C12 (amended): POST /tasks with an otherwise valid body answers 201 and
\* stores dueDate epoch zero when dueDate is absent, answers 201 and stores
\* the parsed timestamp, to the whole second the DATETIME column keeps, when
\* dueDate is a string that parses, and answers 400 and stores nothing when
\* dueDate is a string that does not parse.
C12_DueDateOnCreate ==
    \A l \in DOMAIN lists :
        /\ CreatedDue(PostTaskOutcome(DB, DueBody(l, Undef)), DateV(0))
        /\ \A due \in Unparseable :
              Rejected(PostTaskOutcome(DB, DueBody(l, due)))
        /\ \A ms \in DateMs :
              CreatedDue(PostTaskOutcome(DB, DueBody(l, Str(ISO(ms)))),
                         DateV(WholeSecond(ms)))

\* C12's case: a list is stored, and a POST /tasks naming it is refused
\* for its dueDate "soon" and accepted with a dueDate that parses.
C12_Witness ==
    \E l \in DOMAIN lists :
        /\ PostTaskOutcome(DB, DueBody(l, Str("soon"))).resp.status = 400
        /\ PostTaskOutcome(DB, DueBody(l, Str(ISO(1000)))).resp.status = 201
        /\ PostTaskOutcome(DB, DueBody(l, Undef)).resp.status = 201
\* Every row of the table has a non-empty string under prop.
NonEmpty(table, prop) ==
    \A i \in DOMAIN table : table[i][prop].k = "str" /\ table[i][prop].s # ""

\* The tables hold non-empty names and texts only.
NonEmptyText(db) ==
    /\ NonEmpty(db.users, "name")
    /\ NonEmpty(db.lists, "name")
    /\ NonEmpty(db.tasks, "text")

\* name or text values that are missing or empty.
Blank == {Undef, Str("")}

\* The request was answered 400 and the tables still hold no empty text.
Refused400(out) == out.resp.status = 400 /\ NonEmptyText(out.db)

\* C13 (as claimed): every stored user and list has a non-empty name and
\* every stored task a non-empty text, and a create whose name or text is
\* missing or empty, or an update that sets it to the empty string, is
\* answered 400 and stores no empty name or text.
C13_NonEmptyRequiredText ==
    /\ NonEmptyText(DB)
    /\ \A n \in Blank :
          /\ Refused400(PostUserOutcome(DB, UserBody(Undef, n)))
          /\ \A u \in DOMAIN users :
                Refused400(PostListOutcome(DB, ListBody(Undef, Num(u), n)))
          /\ \A l \in DOMAIN lists :
                Refused400(PostTaskOutcome(DB, TaskBody(Undef, Num(l), n,
                                                        Undef, Undef, Undef)))
    /\ \A u \in DOMAIN users :
          Refused400(PutUserOutcome(DB, IdParam(u), UserBody(Undef, Str(""))))
    /\ \A l \in DOMAIN lists :
          Refused400(PutListOutcome(DB, IdParam(l),
                                    ListBody(Undef, Undef, Str(""))))
    /\ \A t \in DOMAIN tasks :
          Refused400(PutTaskOutcome(DB, IdParam(t),
                                    TaskBody(Undef, Undef, Str(""),
                                             Undef, Undef, Undef)))
\* Task bodies with one ill-typed property each.
IllTyped ==
    {TaskBody(Undef, Undef, Num(5), Undef, Undef, Undef),
     TaskBody(Undef, Undef, Undef, Num(5), Undef, Undef),
     TaskBody(Undef, Undef, Undef, Undef, Str("soon"), Undef),
     TaskBody(Undef, Undef, Undef, Undef, Num(0), Undef),
     TaskBody(Undef, Undef, Undef, Undef, Undef, Num(1)),
     TaskBody(Undef, Undef, Undef, Undef, Undef, Str("yes")),
     TaskBody(Undef, Str("x"), Undef, Undef, Undef, Undef)}

\* The body with a listId and a text added where it has none.
Completed(b) ==
    [b EXCEPT !.listId = IF @ = Undef THEN Num(1) ELSE @,
              !.text = IF @ = Undef THEN Str("a") ELSE @]

\* POST /tasks answers 400 to the body, even completed.
PostRejects(b) ==
    validate(plainToInstance(NewTask, ParseDueDate(Completed(b))),
             TaskRules) # <<>>

\* PUT /users and PUT /lists answer 400 to an ill-typed merge and save
\* nothing; PUT /tasks never answers 400 to a valid path id.
Asymmetry ==
    /\ \A u \in DOMAIN users :
          Rejected(PutUserOutcome(DB, IdParam(u), UserBody(Undef, Num(5))))
    /\ \A l \in DOMAIN lists :
          /\ Rejected(PutListOutcome(DB, IdParam(l),
                                     ListBody(Undef, Undef, Num(5))))
          /\ Rejected(PutListOutcome(DB, IdParam(l),
                                     ListBody(Undef, Str("x"), Undef)))
    /\ \A t \in DOMAIN tasks, b \in IllTyped :
          PutTaskOutcome(DB, IdParam(t), b).resp.status # 400

------------------------------------------------------------------------------
(* The start of the process.  app.listen's callback calls main(), which    *)
(* awaits AppDataSource.initialize(): the server accepts requests from the *)
(* moment it listens, while the initialisation is still pending.           *)

BootInit ==
    /\ EmptyTables
    /\ boot = Boot("starting", 0, FALSE)
    /\ put = Idle
    /\ deleted = {}

\* app.listen(port, () => { ...; main(); }): main calls initialize once.
Listen ==
    /\ boot.phase = "starting"
    /\ boot' = [boot EXCEPT !.phase = "listening", !.inits = @ + 1]
    /\ UNCHANGED <<users, lists, tasks, autoInc, put, deleted>>

\* await AppDataSource.initialize() resolved.
InitializeOk ==
    /\ boot.phase = "listening"
    /\ boot' = [boot EXCEPT !.phase = "ready"]
    /\ UNCHANGED <<users, lists, tasks, autoInc, put, deleted>>

\* await AppDataSource.initialize() rejected: process.exit(1).
InitializeFail ==
    /\ boot.phase = "listening"
    /\ boot' = [boot EXCEPT !.phase = "exited"]
    /\ UNCHANGED <<users, lists, tasks, autoInc, put, deleted>>

\* A request that arrives while initialize is pending: its handler calls
\* AppDataSource.getRepository(...) all the same; the call throws, the
\* handler's catch answers 500 and the tables are as they were.
EarlyRequest ==
    /\ boot.phase = "listening"
    /\ boot' = [boot EXCEPT !.early = TRUE]
    /\ UNCHANGED <<users, lists, tasks, autoInc, put, deleted>>

\* Once initialize resolved the handlers work on the tables.
Serve == boot.phase = "ready" /\ Next

BootNext == Listen \/ InitializeOk \/ InitializeFail \/ EarlyRequest \/ Serve

BootSpec == BootInit /\ [][BootNext]_vars

\* C15 (as claimed): the connection is initialised once at most, no handler
\* calls the repository before the initialisation completed, and after a
\* failed initialisation the process has exited: nothing is served.
C15_StoreInitialisedBeforeUse ==
    /\ boot.inits <= 1
    /\ ~boot.early
    /\ boot.phase = "exited" => ~ENABLED BootNext
------------------------------------------------------------------------------
(* A PUT and a DELETE of one row, step by step.  Each await of a handler   *)
(* lets the other requests run: a PUT is one store step at findOneBy and   *)
(* another at save, a DELETE and a POST are one store step each.           *)

Routes == {"users", "lists", "tasks"}

Table(db, route) ==
    CASE route = "users" -> db.users
      [] route = "lists" -> db.lists
      [] route = "tasks" -> db.tasks

\* The body of the PUT: a new name, or a new text.
RacePutBody(route) ==
    CASE route = "users" -> UserBody(Undef, Str("b"))
      [] route = "lists" -> ListBody(Undef, Undef, Str("b"))
      [] route = "tasks" -> TaskBody(Undef, Undef, Str("b"), Undef, Undef, Undef)

\* PUT, first store step: findOneBy found the row; the handler merged the
\* body into it (and, for users and lists, validated the result).
PutFetch ==
    /\ put.pc = "idle"
    /\ put.started < MaxPuts
    /\ \E route \in Routes :
          \E id \in DOMAIN Table(DB, route) :
              put' = [pc |-> "fetched", route |-> route, id |-> id,
                      entity |-> merge(Table(DB, route)[id], RacePutBody(route)),
                      status |-> 0, late |-> FALSE,
                      started |-> put.started + 1]
    /\ UNCHANGED <<users, lists, tasks, autoInc, boot, deleted>>

\* repository.save(updated) of the PUT in flight, on the tables as they are
\* now.
RaceSaved ==
    CASE put.route = "users" ->
            save(users, autoInc.users, put.entity, UserColumns, "", {})
      [] put.route = "lists" ->
            save(lists, autoInc.lists, put.entity, ListColumns, "userId",
                 DOMAIN users)
      [] put.route = "tasks" ->
            save(tasks, autoInc.tasks, put.entity, TaskColumns, "listId",
                 DOMAIN lists)

\* PUT, second store step: save, then res.json(result), or the catch's 500.
\* late tells that the row's DELETE had been answered 204 by then.
PutSave ==
    /\ put.pc = "fetched"
    /\ put' = [Idle EXCEPT !.status = IF RaceSaved.ok THEN 200 ELSE 500,
                           !.late = <<put.route, put.id>> \in deleted,
                           !.started = put.started]
    /\ users' = IF put.route = "users" THEN RaceSaved.table ELSE users
    /\ lists' = IF put.route = "lists" THEN RaceSaved.table ELSE lists
    /\ tasks' = IF put.route = "tasks" THEN RaceSaved.table ELSE tasks
    /\ autoInc' = [autoInc EXCEPT ![put.route] = RaceSaved.next]
    /\ UNCHANGED <<boot, deleted>>

DeleteOutcome(db, route, p) ==
    CASE route = "users" -> DeleteUserOutcome(db, p)
      [] route = "lists" -> DeleteListOutcome(db, p)
      [] route = "tasks" -> DeleteTaskOutcome(db, p)

\* DELETE of a stored row, answered 204.
RaceDelete ==
    \E route \in Routes :
        \E id \in DOMAIN Table(DB, route) :
            LET out == DeleteOutcome(DB, route, IdParam(id)) IN
            /\ out.resp.status = 204
            /\ Tables(out.db)
            /\ deleted' = deleted \cup {<<route, id>>}
            /\ UNCHANGED <<boot, put>>

\* A POST whose body carries no id: the row gets the table's next id.
RaceCreated(out) ==
    /\ out.resp.status = 201
    /\ Fits(out.db)
    /\ Tables(out.db)
    /\ UNCHANGED <<boot, put, deleted>>

RacePost ==
    \/ RaceCreated(PostUserOutcome(DB, UserBody(Undef, Str("a"))))
    \/ \E u \in DOMAIN users :
          RaceCreated(PostListOutcome(DB, ListBody(Undef, Num(u), Str("a"))))
    \/ \E l \in DOMAIN lists :
          RaceCreated(PostTaskOutcome(DB, TaskBody(Undef, Num(l), Str("a"),
                                                   Undef, Undef, Undef)))

RaceNext == PutFetch \/ PutSave \/ RaceDelete \/ RacePost

RaceSpec == Init /\ [][RaceNext]_vars

\* C16 (as claimed): once the DELETE of a row was answered 204 the row is
\* absent from its table from then on, and no PUT of the row whose save
\* came after that answer was answered 200.
C16_DeleteNotUndoneByUpdate ==
    /\ \A d \in deleted : d[2] \notin DOMAIN Table(DB, d[1])
    /\ ~(put.status = 200 /\ put.late)

====
